---- MODULE Spec2Model ----
(***************************************************************************)
(* Financial dashboard: the CSV record store (app.py load_* / data-entry   *)
(* forms / CSV import), the dashboard pages' aggregations, and the SQLite  *)
(* credential store (database.py).                                         *)
(*                                                                         *)
(* Amounts are in cents, dates are the integer YYYYMMDD.  A cell of a CSV  *)
(* file or of a DataFrame is a record [t, n, s]: a number, a string, or    *)
(* the missing value NaN.                                                  *)
(***************************************************************************)
EXTENDS Integers, Sequences, FiniteSets, TLC

VARIABLES files, writes, result, users, dirs, nsfiles, sessions, uploaded

vars == <<files, writes, result, users, dirs, nsfiles, sessions, uploaded>>

(* ------------------------------ bounds --------------------------------- *)

\* full-file rewrites performed in one behaviour
MaxWrites == 2

(* ------------------------------ cells ---------------------------------- *)

Num(n) == [t |-> "num", n |-> n, s |-> ""]

Str(s) == [t |-> "str", n |-> 0, s |-> s]

NaN == [t |-> "nan", n |-> 0, s |-> ""]

\* text that is not a date, in a date column of an uploaded file
NotADate == Str("not-a-date")

\* strings pandas.read_csv turns into the missing value (keep_default_na)
NaValues == {"", "NA", "NaN", "null"}

Range(seq) == {seq[i] : i \in 1..Len(seq)}

(* ------------------------------ schema --------------------------------- *)

Kinds == {"transactions", "clients", "recurring"}

TransactionColumns == <<"Date", "Type", "Category", "Amount", "Description">>

ClientColumns == <<"Client", "Project", "Amount", "Invoice_Sent", "Due_Date", "Status">>

RecurringColumns == <<"Vendor", "Frequency", "Amount", "Due_Month", "Notes">>

\* required_cols of the three CSV import blocks
RequiredCols(kind) ==
  CASE kind = "transactions" -> <<"Date", "Type", "Category", "Amount", "Description">>
    [] kind = "clients" -> <<"Client", "Project", "Amount", "Invoice_Sent", "Due_Date", "Status">>
    [] kind = "recurring" -> <<"Vendor", "Frequency", "Amount", "Due_Month">>

(* --------------------------- files and frames -------------------------- *)

\* a row over a header: one cell per column
MkRow(header, cells) == [c \in Range(header) |-> cells[CHOOSE i \in 1..Len(header) : header[i] = c]]

MkFile(header, rows) == [exists |-> TRUE, header |-> header, rows |-> rows]

\* a zero-byte file, as Path.touch() leaves it
EmptyFile == MkFile(<< >>, << >>)

\* pd.DataFrame()
EmptyFrame == [columns |-> << >>, rows |-> << >>]

\* pd.DataFrame({...}) of ordered columns and rows of cells
MkFrame(columns, rows) == [columns |-> columns, rows |-> rows]

(* ----------------------------- sample data ----------------------------- *)

SampleTransactions ==
  MkFile(TransactionColumns,
    << MkRow(TransactionColumns, <<Num(20240115), Str("Income"), Str("Client Work"), Num(500000), Str("Project Alpha")>>),
       MkRow(TransactionColumns, <<Num(20240120), Str("Expense"), Str("Software"), Num(9900), Str("Adobe Creative")>>),
       MkRow(TransactionColumns, <<Num(20240125), Str("Income"), Str("Digital Store"), Num(120000), Str("E-book Sales")>>),
       MkRow(TransactionColumns, <<Num(20240201), Str("Expense"), Str("Meals"), Num(4500), Str("Business Lunch")>>),
       MkRow(TransactionColumns, <<Num(20240205), Str("Expense"), Str("Subscriptions"), Num(2999), Str("Netflix")>>) >>)

SampleClients ==
  MkFile(ClientColumns,
    << MkRow(ClientColumns, <<Str("ABC Corp"), Str("Website Redesign"), Num(800000), Num(20240110), Num(20240210), Str("Paid")>>),
       MkRow(ClientColumns, <<Str("XYZ Inc"), Str("Mobile App"), Num(1200000), Num(20240115), Num(20240215), Str("Due")>>),
       MkRow(ClientColumns, <<Str("StartupCo"), Str("Consulting"), Num(500000), Num(20240201), Num(20240301), Str("Sent")>>) >>)

SampleRecurring ==
  MkFile(RecurringColumns,
    << MkRow(RecurringColumns, <<Str("Adobe"), Str("Monthly"), Num(9900), Str("January"), Str("Creative Suite")>>),
       MkRow(RecurringColumns, <<Str("Microsoft"), Str("Annual"), Num(120000), Str("January"), Str("Office 365")>>),
       MkRow(RecurringColumns, <<Str("AWS"), Str("Monthly"), Num(5000), Str("January"), Str("Cloud hosting")>>),
       MkRow(RecurringColumns, <<Str("Insurance"), Str("Annual"), Num(240000), Str("January"), Str("Business insurance")>>) >>)

SampleFile(kind) ==
  CASE kind = "transactions" -> SampleTransactions
    [] kind = "clients" -> SampleClients
    [] kind = "recurring" -> SampleRecurring

(* ------------------------- pandas: CSV and frames ---------------------- *)

\* read_csv of one field: an NA string is the missing value
ParseCell(cell) == IF cell.t = "str" /\ cell.s \in NaValues THEN NaN ELSE cell

\* to_csv of one value: the missing value is written as the empty field
FormatCell(cell) == IF cell.t = "nan" THEN Str("") ELSE cell

\* pd.read_csv(file_path): the exception it raises ("none" if it returns) and the frame
ReadCsv(f) ==
  IF ~f.exists THEN [err |-> "FileNotFoundError", df |-> EmptyFrame]
  ELSE IF Len(f.header) = 0 THEN [err |-> "EmptyDataError", df |-> EmptyFrame]
  ELSE [err |-> "none",
        df |-> MkFrame(f.header,
                 [i \in 1..Len(f.rows) |-> [c \in DOMAIN f.rows[i] |-> ParseCell(f.rows[i][c])]])]

\* df.to_csv(file_path, index=False)
ToCsv(df) ==
  MkFile(df.columns,
    [i \in 1..Len(df.rows) |-> [c \in DOMAIN df.rows[i] |-> FormatCell(df.rows[i][c])]])

\* pd.to_datetime(df[col]) raises ValueError when a value is not a date
DatetimeFails(df, col) == \E i \in 1..Len(df.rows) : df.rows[i][col].t = "str"

\* df.empty
IsEmpty(df) == Len(df.columns) = 0 \/ Len(df.rows) = 0

Reindex(row, columns) == [c \in Range(columns) |-> IF c \in DOMAIN row THEN row[c] ELSE NaN]

\* pd.concat([a, b], ignore_index=True): union of the columns, missing cells NaN
Concat(a, b) ==
  LET columns == a.columns \o SelectSeq(b.columns, LAMBDA c : c \notin Range(a.columns))
  IN MkFrame(columns,
       [i \in 1..Len(a.rows) |-> Reindex(a.rows[i], columns)]
       \o [i \in 1..Len(b.rows) |-> Reindex(b.rows[i], columns)])

(* ------------------------------- loaders ------------------------------- *)

LoadOk(df) == [status |-> "ok", error |-> "none", df |-> df]

\* the except branch: st.warning(...) and return pd.DataFrame()
LoadWarning(error) == [status |-> "warning", error |-> error, df |-> EmptyFrame]

\* an exception the loader does not catch
LoadRaise(error) == [status |-> "raise", error |-> error, df |-> EmptyFrame]

load_transactions(f) ==
  LET r == ReadCsv(f) IN
  IF r.err # "none" THEN LoadWarning(r.err)
  ELSE IF "Date" \notin Range(r.df.columns) THEN LoadRaise("KeyError")
  ELSE IF DatetimeFails(r.df, "Date") THEN LoadWarning("ValueError")
  ELSE LoadOk(r.df)

load_clients(f) ==
  LET r == ReadCsv(f) IN
  IF r.err # "none" THEN LoadWarning(r.err)
  ELSE IF "Invoice_Sent" \notin Range(r.df.columns) THEN LoadRaise("KeyError")
  ELSE IF DatetimeFails(r.df, "Invoice_Sent") THEN LoadWarning("ValueError")
  ELSE IF "Due_Date" \notin Range(r.df.columns) THEN LoadRaise("KeyError")
  ELSE IF DatetimeFails(r.df, "Due_Date") THEN LoadWarning("ValueError")
  ELSE LoadOk(r.df)

load_recurring(f) ==
  LET r == ReadCsv(f) IN
  IF r.err # "none" THEN LoadWarning(r.err) ELSE LoadOk(r.df)

Load(kind, f) ==
  CASE kind = "transactions" -> load_transactions(f)
    [] kind = "clients" -> load_clients(f)
    [] kind = "recurring" -> load_recurring(f)

\* existing_data = load_*(file); updated_data = pd.concat([existing_data, new]);
\* updated_data.to_csv(file): the file afterwards, and whether the load raised
AppendFrame(kind, f, new) ==
  LET existing == Load(kind, f) IN
  IF existing.status = "raise"
  THEN [raised |-> TRUE, warned |-> FALSE, io |-> <<"read">>, file |-> f]
  ELSE [raised |-> FALSE, warned |-> existing.status = "warning",
        io |-> <<"read", "write">>, file |-> ToCsv(Concat(existing.df, new))]

(* ------------------------------ form input ----------------------------- *)

\* what the user typed into a text_input: the text between pre leading and post trailing blanks
Text(body) == [pre |-> 0, body |-> body, post |-> 0]

Padded(body) == [pre |-> 1, body |-> body, post |-> 1]

\* str.strip()
strip(text) == text.body

TransactionForm(date, trans_type, amount, category, description) ==
  [date |-> date, trans_type |-> trans_type, amount |-> amount, category |-> category,
   description |-> description]

\* st.number_input("Amount", min_value=0.0): no negative amount can be entered
TransactionForms ==
  {TransactionForm(20240125, "Expense", 4500, Padded("Travel"), Text("Taxi")),
   TransactionForm(20240125, "Expense", 4500, Padded(""), Text("Lunch")),
   TransactionForm(20240125, "Income", 4500, Text("Meals"), Text("")),
   TransactionForm(20240125, "Expense", 0, Text("Meals"), Text("Lunch"))}

ClientForm(client, project, amount, invoice_sent, due_date, status) ==
  [client |-> client, project |-> project, amount |-> amount, invoice_sent |-> invoice_sent,
   due_date |-> due_date, status |-> status]

ClientForms ==
  {ClientForm(Text("Acme"), Padded("Audit"), 90000, 20240301, 20240331, "Sent"),
   ClientForm(Text(""), Text("Audit"), 90000, 20240301, 20240331, "Sent"),
   ClientForm(Text("Acme"), Padded(""), 90000, 20240301, 20240331, "Sent"),
   ClientForm(Text("Acme"), Text("Audit"), 0, 20240301, 20240331, "Sent"),
   ClientForm(Text("Acme"), Text("Audit"), 90000, 20240301, 20240301, "Sent"),
   ClientForm(Text("Acme"), Text("Audit"), 90000, 20240301, 20240215, "Overdue")}

RecurringForm(vendor, frequency, amount, due_month, notes) ==
  [vendor |-> vendor, frequency |-> frequency, amount |-> amount, due_month |-> due_month,
   notes |-> notes]

RecurringForms ==
  {RecurringForm(Text("Hosting"), "Monthly", 4500, "March", Text("")),
   RecurringForm(Text("Hosting"), "Monthly", 4500, "March", Padded("Yearly plan")),
   RecurringForm(Padded(""), "Monthly", 4500, "March", Text("")),
   RecurringForm(Text("Hosting"), "Annual", 0, "March", Text(""))}

(* --------------------------- outcome of a handler ---------------------- *)

\* what the last handler did: the st.error / st.success / st.warning it showed, the
\* exception it let escape, the store operations it made, and the frame it was given
NoResult ==
  [op |-> "none", kind |-> "none", status |-> "none", msg |-> "", named |-> << >>,
   io |-> << >>, warned |-> FALSE, frame |-> EmptyFrame, ratios |-> {}, metrics |-> {},
   args |-> << >>]

(* ------------------------------ data entry ----------------------------- *)

\* the transaction chain with "amount < 0" in place of "amount <= 0"
TransactionErrorLax(category, description, amount) ==
  IF strip(category) = "" THEN "Category cannot be empty!"
  ELSE IF strip(description) = "" THEN "Description cannot be empty!"
  ELSE IF amount < 0 THEN "Amount must be greater than 0!"
  ELSE "ok"

\* the validation chain of the transaction form
TransactionError(category, description, amount) ==
  IF strip(category) = "" THEN "Category cannot be empty!"
  ELSE IF strip(description) = "" THEN "Description cannot be empty!"
  ELSE IF amount <= 0 THEN "Amount must be greater than 0!"
  ELSE "ok"

\* the validation chain of the client invoice form
ClientError(client, project, amount, invoice_sent, due_date) ==
  IF strip(client) = "" THEN "Client name cannot be empty!"
  ELSE IF strip(project) = "" THEN "Project name cannot be empty!"
  ELSE IF amount <= 0 THEN "Amount must be greater than 0!"
  ELSE IF due_date <= invoice_sent THEN "Due date must be after invoice sent date!"
  ELSE "ok"

\* the validation chain of the recurring expense form
RecurringError(vendor, amount) ==
  IF strip(vendor) = "" THEN "Vendor name cannot be empty!"
  ELSE IF amount <= 0 THEN "Amount must be greater than 0!"
  ELSE "ok"

\* the body of "if st.form_submit_button(...)": reject, or append new_row to the file
Submit(kind, error, new_row) ==
  IF error # "ok"
  THEN /\ result' = [NoResult EXCEPT !.op = "submit", !.kind = kind, !.status = "error",
                                     !.msg = error, !.frame = new_row]
       /\ UNCHANGED <<files, writes>>
  ELSE LET a == AppendFrame(kind, files[kind], new_row) IN
       /\ writes < MaxWrites
       /\ files' = [files EXCEPT ![kind] = a.file]
       /\ writes' = IF a.raised THEN writes ELSE writes + 1
       /\ result' = [NoResult EXCEPT !.op = "submit", !.kind = kind,
                                     !.status = IF a.raised THEN "raise" ELSE "success",
                                     !.io = a.io, !.warned = a.warned, !.frame = new_row]

\* new_row = pd.DataFrame({...}) of the transaction form
NewTransaction(date, trans_type, amount, category, description) ==
  MkFrame(TransactionColumns,
    << MkRow(TransactionColumns,
         <<Num(date), Str(trans_type), Str(strip(category)), Num(amount),
           Str(strip(description))>>) >>)

\* new_row of the client invoice form
NewClient(client, project, amount, invoice_sent, due_date, status) ==
  MkFrame(ClientColumns,
    << MkRow(ClientColumns,
         <<Str(strip(client)), Str(strip(project)), Num(amount), Num(invoice_sent),
           Num(due_date), Str(status)>>) >>)

\* new_row of the recurring expense form
NewRecurring(vendor, frequency, amount, due_month, notes) ==
  MkFrame(RecurringColumns,
    << MkRow(RecurringColumns,
         <<Str(strip(vendor)), Str(frequency), Num(amount), Str(due_month),
           Str(strip(notes))>>) >>)

SubmitTransaction(date, trans_type, amount, category, description) ==
  /\ Submit("transactions", TransactionError(category, description, amount),
       NewTransaction(date, trans_type, amount, category, description))
  /\ UNCHANGED <<users, dirs, nsfiles, sessions, uploaded>>

SubmitClient(client, project, amount, invoice_sent, due_date, status) ==
  /\ Submit("clients", ClientError(client, project, amount, invoice_sent, due_date),
       NewClient(client, project, amount, invoice_sent, due_date, status))
  /\ UNCHANGED <<users, dirs, nsfiles, sessions, uploaded>>

SubmitRecurring(vendor, frequency, amount, due_month, notes) ==
  /\ Submit("recurring", RecurringError(vendor, amount),
       NewRecurring(vendor, frequency, amount, due_month, notes))
  /\ UNCHANGED <<users, dirs, nsfiles, sessions, uploaded>>

(* ------------------------------ CSV import ----------------------------- *)

\* the column check with any() in place of all()
HasRequiredColsAny(columns, required_cols) ==
  \E i \in 1..Len(required_cols) : required_cols[i] \in Range(columns)

\* all(col in df.columns for col in required_cols)
HasRequiredCols(columns, required_cols) ==
  \A i \in 1..Len(required_cols) : required_cols[i] \in Range(columns)

\* the body of "if uploaded_... is not None" of one uploader
ImportResult(kind, f, upload) ==
  LET r == ReadCsv(upload)
      a == AppendFrame(kind, f, r.df)
      base == [NoResult EXCEPT !.op = "import", !.kind = kind, !.frame = r.df]
  IN IF r.err # "none"
     THEN [file |-> f, wrote |-> FALSE,
           result |-> [base EXCEPT !.status = "error", !.msg = "Error importing"]]
     ELSE IF HasRequiredCols(r.df.columns, RequiredCols(kind))
     THEN IF a.raised
          THEN [file |-> f, wrote |-> FALSE,
                result |-> [base EXCEPT !.status = "error", !.msg = "Error importing",
                                        !.io = a.io]]
          ELSE [file |-> a.file, wrote |-> TRUE,
                result |-> [base EXCEPT !.status = "success", !.msg = "Successfully imported",
                                        !.io = a.io, !.warned = a.warned]]
     ELSE [file |-> f, wrote |-> FALSE,
           result |-> [base EXCEPT !.status = "error", !.msg = "CSV must contain columns",
                                   !.named = RequiredCols(kind)]]

Import(kind, upload) ==
  LET i == ImportResult(kind, files[kind], upload) IN
  /\ i.wrote => writes < MaxWrites
  /\ files' = [files EXCEPT ![kind] = i.file]
  /\ writes' = IF i.wrote THEN writes + 1 ELSE writes
  /\ result' = i.result
  /\ UNCHANGED <<users, dirs, nsfiles, sessions, uploaded>>

\* the uploaded file: the given columns of the given rows
Upload(header, fullrows) ==
  MkFile(header, [i \in 1..Len(fullrows) |-> [c \in Range(header) |-> fullrows[i][c]]])

GoodTransaction ==
  [Date |-> Num(20240125), Type |-> Str("Income"), Category |-> Str("Consulting"),
   Amount |-> Num(250000), Description |-> Str("Retainer"), Account |-> Str("Checking")]

ZeroTransaction ==
  [GoodTransaction EXCEPT !.Type = Str("Expense"), !.Category = Str("Meals"), !.Amount = Num(0)]

NegativeTransaction == [ZeroTransaction EXCEPT !.Amount = Num(-4500)]

UndatedTransaction == [ZeroTransaction EXCEPT !.Date = NotADate, !.Amount = Num(4500)]

TransactionUploads ==
  {Upload(TransactionColumns, <<r>>) :
     r \in {ZeroTransaction, NegativeTransaction, UndatedTransaction}}
  \cup {Upload(TransactionColumns \o <<"Account">>, <<GoodTransaction>>),
        Upload(<<"Date", "Type", "Category", "Amount">>, <<GoodTransaction, ZeroTransaction>>),
        Upload(<<"Account", "Type", "Category", "Description">>, <<GoodTransaction, ZeroTransaction>>),
        EmptyFile}

GoodClient ==
  [Client |-> Str("Globex"), Project |-> Str("Migration"), Amount |-> Num(300000),
   Invoice_Sent |-> Num(20240301), Due_Date |-> Num(20240331), Status |-> Str("Due")]

SameDayClient == [GoodClient EXCEPT !.Due_Date = Num(20240301), !.Status = Str("Overdue")]

ClientUploads ==
  {Upload(ClientColumns, <<GoodClient>>),
   Upload(ClientColumns, <<SameDayClient>>),
   Upload(<<"Client", "Project", "Amount", "Invoice_Sent", "Due_Date">>, <<GoodClient, SameDayClient>>),
   Upload(<<"Client", "Project", "Invoice_Sent", "Status">>, <<GoodClient>>)}

GoodRecurring ==
  [Vendor |-> Str("Domain"), Frequency |-> Str("Annual"), Amount |-> Num(1500),
   Due_Month |-> Str("June"), Notes |-> Str("Registrar"), Account |-> Str("Checking")]

RecurringUploads ==
  {Upload(RecurringColumns, <<GoodRecurring>>),
   Upload(<<"Vendor", "Frequency", "Amount", "Due_Month">>, <<GoodRecurring>>),
   Upload(<<"Vendor", "Frequency", "Due_Month", "Notes">>, <<GoodRecurring, GoodRecurring>>),
   Upload(<<"Vendor", "Amount", "Account">>, <<GoodRecurring>>)}

ImportTransactions == \E upload \in TransactionUploads : Import("transactions", upload)

ImportClients == \E upload \in ClientUploads : Import("clients", upload)

ImportRecurring == \E upload \in RecurringUploads : Import("recurring", upload)

(* ------------------------------- start-up ------------------------------ *)

\* a file that was already in data/ and is not one of the application's: a header without
\* the date columns
ForeignFile(kind) ==
  CASE kind = "transactions" -> MkFile(<<"Type", "Category", "Amount", "Description">>, << >>)
    [] kind = "clients" -> MkFile(<<"Client", "Project", "Amount", "Status">>, << >>)
    [] kind = "recurring" -> EmptyFile

\* load_data(): a file that is not there is created with the sample rows, a file that is
\* there is left as it is.  The data directory was absent, or held three zero-byte files,
\* or held three files of another origin.
InitialDirectories ==
  {[k \in Kinds |-> SampleFile(k)], [k \in Kinds |-> EmptyFile], [k \in Kinds |-> ForeignFile(k)]}

\* init_db() on a machine without user_data/: the users table is empty, user_data/ is made
InitCredentials ==
  /\ users = << >>
  /\ dirs = {<< >>}
  /\ nsfiles = [path \in {} |-> EmptyFile]

\* the browser sessions of the application: Streamlit runs the script of each session in
\* a thread of its own
Writers == {1, 2}

\* a session that is not inside a form handler
IdleSession ==
  [pc |-> "idle", kind |-> "none", existing |-> EmptyFrame, warned |-> FALSE,
   new_row |-> EmptyFrame]

\* st.file_uploader(...) returns None: no file is selected
NoUpload == [selected |-> FALSE, file |-> EmptyFile, pos |-> "start"]

\* no session is inside a handler and the three uploaders are empty
InitSessions ==
  /\ sessions = [w \in Writers |-> IdleSession]
  /\ uploaded = [k \in Kinds |-> NoUpload]

Init ==
  /\ files \in InitialDirectories
  /\ writes = 0
  /\ result = NoResult
  /\ InitCredentials
  /\ InitSessions

DataEntry ==
  \/ \E f \in TransactionForms :
       SubmitTransaction(f.date, f.trans_type, f.amount, f.category, f.description)
  \/ \E f \in ClientForms :
       SubmitClient(f.client, f.project, f.amount, f.invoice_sent, f.due_date, f.status)
  \/ \E f \in RecurringForms :
       SubmitRecurring(f.vendor, f.frequency, f.amount, f.due_month, f.notes)
  \/ ImportTransactions
  \/ ImportClients
  \/ ImportRecurring

(* ----------------------------- aggregation ---------------------------- *)

RECURSIVE SumAmount(_)
\* df['Amount'].sum(): missing values are skipped
SumAmount(rows) ==
  IF Len(rows) = 0 THEN 0
  ELSE (IF Head(rows)["Amount"].t = "num" THEN Head(rows)["Amount"].n ELSE 0) + SumAmount(Tail(rows))

\* df[df[col] == text]
Where(rows, col, text) == SelectSeq(rows, LAMBDA r : r[col] = Str(text))

\* isin(['Sent', 'Due']) taken as == 'Sent'
WhereInSentOnly(rows, col, texts) ==
  SelectSeq(rows, LAMBDA r : r[col].t = "str" /\ r[col].s \in texts \ {"Due"})

\* df[df[col].isin(texts)]
WhereIn(rows, col, texts) == SelectSeq(rows, LAMBDA r : r[col].t = "str" /\ r[col].s \in texts)

\* dt.to_period('M') and dt.year of a date; NaT has neither
MonthOf(cell) == IF cell.t = "num" THEN cell.n \div 100 ELSE 0

YearOf(cell) == IF cell.t = "num" THEN cell.n \div 10000 ELSE 0

InMonth(rows, month) == SelectSeq(rows, LAMBDA r : MonthOf(r["Date"]) = month)

\* n / d rounded to the nearest integer, halves to the even one (d > 0)
RoundDiv(n, d) ==
  LET q == n \div d
      r == n - q * d
  IN IF 2 * r > d THEN q + 1
     ELSE IF 2 * r < d THEN q
     ELSE IF q % 2 = 0 THEN q ELSE q + 1

\* a floating-point result: a number (in hundredths), nan, inf or -inf
Number(v) == [tag |-> "num", val |-> v]

\* n * 10000 / d rounded (d > 0), multiplying by 100 twice so that no product leaves 32 bits
Hundredths(n, d) ==
  LET q == n \div d
      r == n - q * d
      a == (r * 100) \div d
      r2 == r * 100 - a * d
  IN q * 10000 + a * 100 + RoundDiv(r2 * 100, d)

\* (n / d * 100).round(2) in floating point, in hundredths of a percent: a zero divisor
\* gives nan or an infinity, not an exception
Percent(n, d) ==
  IF d = 0
  THEN (IF n = 0 THEN [tag |-> "nan", val |-> 0]
        ELSE IF n > 0 THEN [tag |-> "inf", val |-> 0] ELSE [tag |-> "-inf", val |-> 0])
  ELSE IF d > 0 THEN Number(Hundredths(n, d))
  ELSE Number(Hundredths(0 - n, 0 - d))

Ratio(name, key, den, value) == [name |-> name, key |-> key, den |-> den, value |-> value]

HasCols(df, cols) == cols \subseteq Range(df.columns)

(* -------------------------------- pages -------------------------------- *)

Todays == {20240125, 20241102}

Page(op, kind) == [NoResult EXCEPT !.op = op, !.kind = kind]

\* an exception escapes the page function
PageRaise(op, kind, error, warned) ==
  [Page(op, kind) EXCEPT !.status = "raise", !.msg = error, !.warned = warned]

\* st.warning("No ... data available."); return
PageNoData(op, kind, warned) == [Page(op, kind) EXCEPT !.status = "nodata", !.warned = warned]

PageRendered(op, kind, warned, ratios, metrics) ==
  [Page(op, kind) EXCEPT !.status = "rendered", !.warned = warned, !.ratios = ratios,
                         !.metrics = metrics]

show_overview(fs, today) ==
  LET t == load_transactions(fs["transactions"])
      c == load_clients(fs["clients"])
      r == load_recurring(fs["recurring"])
      warned == "warning" \in {t.status, c.status, r.status}
      current_month_data == InMonth(t.df.rows, today \div 100)
      monthly_income == SumAmount(Where(current_month_data, "Type", "Income"))
      monthly_expenses == SumAmount(Where(current_month_data, "Type", "Expense"))
      monthly_profit == monthly_income - monthly_expenses
      total_outstanding ==
        IF ~IsEmpty(c.df) THEN SumAmount(WhereIn(c.df.rows, "Status", {"Sent", "Due"})) ELSE 0
      overdue_count == IF ~IsEmpty(c.df) THEN Len(Where(c.df.rows, "Status", "Overdue")) ELSE 0
      monthly_recurring ==
        IF ~IsEmpty(r.df) THEN SumAmount(Where(r.df.rows, "Frequency", "Monthly")) ELSE 0
      annual_recurring ==
        IF ~IsEmpty(r.df) THEN SumAmount(Where(r.df.rows, "Frequency", "Annual")) ELSE 0
      profit_margin ==
        IF monthly_income > 0 THEN Percent(monthly_profit, monthly_income) ELSE Number(0)
  IN IF t.status = "raise" \/ c.status = "raise" \/ r.status = "raise"
     THEN PageRaise("overview", "transactions", "KeyError", FALSE)
     ELSE IF IsEmpty(t.df) THEN PageNoData("overview", "transactions", warned)
     ELSE IF ~HasCols(t.df, {"Type", "Amount"})
             \/ (~IsEmpty(c.df) /\ ~HasCols(c.df, {"Status", "Amount"}))
             \/ (~IsEmpty(r.df) /\ ~HasCols(r.df, {"Frequency", "Amount"}))
     THEN PageRaise("overview", "transactions", "KeyError", warned)
     ELSE PageRendered("overview", "transactions", warned,
            {Ratio("profit_margin", today \div 100, monthly_income, profit_margin)},
            {<<"monthly_income", monthly_income>>, <<"monthly_expenses", monthly_expenses>>,
             <<"monthly_profit", monthly_profit>>, <<"total_outstanding", total_outstanding>>,
             <<"overdue_count", overdue_count>>, <<"monthly_recurring", monthly_recurring>>,
             <<"annual_recurring", annual_recurring>>})

show_income_expenses(fs) ==
  LET t == load_transactions(fs["transactions"])
      rows == t.df.rows
      \* groupby drops the rows without a date
      months == {MonthOf(rows[i]["Date"]) : i \in 1..Len(rows)} \ {0}
      Income(m) == SumAmount(Where(InMonth(rows, m), "Type", "Income"))
      Expense(m) == SumAmount(Where(InMonth(rows, m), "Type", "Expense"))
      Profit(m) == Income(m) - Expense(m)
      \* np.where(income_values > 0, (Profit / income_values * 100).round(2), 0)
      Profit_Margin(m) == IF Income(m) > 0 THEN Percent(Profit(m), Income(m)) ELSE Number(0)
  IN IF t.status = "raise" THEN PageRaise("income_expenses", "transactions", "KeyError", FALSE)
     ELSE IF IsEmpty(t.df) THEN PageNoData("income_expenses", "transactions", t.status = "warning")
     ELSE IF ~HasCols(t.df, {"Type", "Amount"})
     THEN PageRaise("income_expenses", "transactions", "KeyError", FALSE)
     ELSE PageRendered("income_expenses", "transactions", FALSE,
            {Ratio("Profit_Margin", m, Income(m), Profit_Margin(m)) : m \in months},
            {<<"Profit", m, Profit(m)>> : m \in months})

\* the orders sort_values(ascending=True) can give
SortValuesAscending(series) ==
  {index \in [1..Cardinality(DOMAIN series) -> DOMAIN series] :
     /\ \A i, j \in DOMAIN index : index[i] = index[j] => i = j
     /\ \A i \in DOMAIN index : i + 1 \in DOMAIN index => series[index[i]] <= series[index[i + 1]]}

\* the orders series.sort_values(ascending=False) can give: equal values come in either
\* order
SortValues(series) ==
  {index \in [1..Cardinality(DOMAIN series) -> DOMAIN series] :
     /\ \A i, j \in DOMAIN index : index[i] = index[j] => i = j
     /\ \A i \in DOMAIN index : i + 1 \in DOMAIN index => series[index[i]] >= series[index[i + 1]]}

\* expenses.groupby('Category')['Amount'].sum().sort_values(ascending=False): the index
\* of the sorted series, one of the orders the sort can give
CategorySummary(fs) ==
  LET t == load_transactions(fs["transactions"])
      expenses == IF HasCols(t.df, {"Type"}) THEN Where(t.df.rows, "Type", "Expense") ELSE << >>
      grouped == IF HasCols(t.df, {"Category", "Amount"})
                 THEN SelectSeq(expenses, LAMBDA r : r["Category"].t = "str") ELSE << >>
  IN SortValues([cat \in {grouped[i]["Category"].s : i \in 1..Len(grouped)} |->
                   SumAmount(Where(grouped, "Category", cat))])

show_expense_categories(fs, index) ==
  LET t == load_transactions(fs["transactions"])
      expenses == Where(t.df.rows, "Type", "Expense")
      \* groupby('Category') drops the rows without a category
      categories == {expenses[i]["Category"].s : i \in {j \in 1..Len(expenses) : expenses[j]["Category"].t = "str"}}
      category_summary(cat) == SumAmount(Where(expenses, "Category", cat))
      total_expenses == SumAmount(WhereIn(expenses, "Category", categories))
      category_df ==
        MkFrame(<<"Category", "Amount", "Percentage">>,
          [i \in 1..Len(index) |->
             [Category |-> index[i], Amount |-> category_summary(index[i]),
              Percentage |-> Percent(category_summary(index[i]), total_expenses)]])
  IN IF t.status = "raise" THEN PageRaise("expense_categories", "transactions", "KeyError", FALSE)
     ELSE IF ~HasCols(t.df, {"Type"})
     THEN PageRaise("expense_categories", "transactions", "KeyError", t.status = "warning")
     ELSE IF Len(expenses) = 0
     THEN PageNoData("expense_categories", "transactions", t.status = "warning")
     ELSE IF ~HasCols(t.df, {"Category", "Amount"})
     THEN PageRaise("expense_categories", "transactions", "KeyError", FALSE)
     ELSE [PageRendered("expense_categories", "transactions", FALSE,
             {Ratio("Percentage", cat, total_expenses,
                    Percent(category_summary(cat), total_expenses)) : cat \in categories},
             {<<"Amount", cat, category_summary(cat)>> : cat \in categories})
           EXCEPT !.frame = category_df]

\* amounts of the allocation page are fractions <<name, numerator, denominator>> of a cent;
\* tax_rate 0.40 is 2/5, reinvestment_rate 0.20 is 1/5, owner pay 365 / 14 * 3000 dollars
show_income_allocations(fs, today) ==
  LET t == load_transactions(fs["transactions"])
      income_data == Where(t.df.rows, "Type", "Income")
      ytd_income ==
        SumAmount(SelectSeq(income_data, LAMBDA r : YearOf(r["Date"]) = today \div 10000))
  IN IF t.status = "raise" THEN PageRaise("income_allocations", "transactions", "KeyError", FALSE)
     ELSE IF ~HasCols(t.df, {"Type"})
     THEN PageRaise("income_allocations", "transactions", "KeyError", t.status = "warning")
     ELSE IF Len(income_data) = 0
     THEN PageNoData("income_allocations", "transactions", t.status = "warning")
     ELSE IF ~HasCols(t.df, {"Amount"})
     THEN PageRaise("income_allocations", "transactions", "KeyError", FALSE)
     ELSE PageRendered("income_allocations", "transactions", FALSE, {},
            {<<"ytd_income", ytd_income, 1>>,
             <<"taxes_set_aside", ytd_income * 2, 5>>,
             <<"reinvestment", ytd_income * 1, 5>>,
             <<"owner_pay_total", 365 * 3000 * 100, 14>>,
             <<"net_cushion", (ytd_income * 5 - ytd_income * 2 - ytd_income * 1) * 14
                               - 365 * 3000 * 100 * 5, 5 * 14>>})

show_client_tracking(fs) ==
  LET c == load_clients(fs["clients"])
      rows == c.df.rows
      Count(status) == Len(Where(rows, "Status", status))
  IN IF c.status = "raise" THEN PageRaise("client_tracking", "clients", "KeyError", FALSE)
     ELSE IF IsEmpty(c.df) THEN PageNoData("client_tracking", "clients", c.status = "warning")
     ELSE IF ~HasCols(c.df, {"Status", "Amount"})
     THEN PageRaise("client_tracking", "clients", "KeyError", FALSE)
     ELSE PageRendered("client_tracking", "clients", FALSE, {},
            {<<"total_count", Len(rows)>>, <<"total_amount", SumAmount(rows)>>,
             <<"paid_count", Count("Paid")>>,
             <<"paid_amount", SumAmount(Where(rows, "Status", "Paid"))>>,
             <<"outstanding_count", Count("Sent") + Count("Due")>>,
             <<"outstanding_amount", SumAmount(WhereIn(rows, "Status", {"Sent", "Due"}))>>,
             <<"overdue_count", Count("Overdue")>>,
             <<"overdue_amount", SumAmount(Where(rows, "Status", "Overdue"))>>})

\* annual_savings = Amount * 12 * 0.1 is kept in tenths of a cent; 50 dollars are 50000 of them
show_recurring_expenses(fs) ==
  LET r == load_recurring(fs["recurring"])
      rows == r.df.rows
      monthly_items == Where(rows, "Frequency", "Monthly")
      monthly_total == SumAmount(monthly_items)
      annual_total == SumAmount(Where(rows, "Frequency", "Annual"))
      suggested == {i \in 1..Len(monthly_items) :
                      /\ monthly_items[i]["Amount"].t = "num"
                      /\ monthly_items[i]["Amount"].n * 12 > 50000}
  IN IF IsEmpty(r.df) THEN PageNoData("recurring_expenses", "recurring", r.status = "warning")
     ELSE IF ~HasCols(r.df, {"Frequency", "Amount"})
             \/ (Len(monthly_items) > 0 /\ ~HasCols(r.df, {"Vendor"}))
     THEN PageRaise("recurring_expenses", "recurring", "KeyError", FALSE)
     ELSE PageRendered("recurring_expenses", "recurring", FALSE, {},
            {<<"monthly_total", "", monthly_total>>, <<"annual_total", "", annual_total>>,
             <<"annual_equivalent", "", monthly_total * 12 + annual_total>>}
            \cup {<<"annual_savings", monthly_items[i]["Vendor"].s, monthly_items[i]["Amount"].n * 12>> :
                    i \in suggested})

Render(page) ==
  /\ result' = page
  /\ UNCHANGED <<files, writes, users, dirs, nsfiles, sessions, uploaded>>

ShowOverview == \E today \in Todays : Render(show_overview(files, today))

ShowIncomeExpenses == Render(show_income_expenses(files))

ShowExpenseCategories ==
  \E index \in CategorySummary(files) : Render(show_expense_categories(files, index))

ShowIncomeAllocations == \E today \in Todays : Render(show_income_allocations(files, today))

ShowClientTracking == Render(show_client_tracking(files))

ShowRecurringExpenses == Render(show_recurring_expenses(files))

\* main(): the page chosen in the sidebar
Pages ==
  \/ ShowOverview
  \/ ShowIncomeExpenses
  \/ ShowExpenseCategories
  \/ ShowIncomeAllocations
  \/ ShowClientTracking
  \/ ShowRecurringExpenses

(* --------------------------- credential store ------------------------- *)

\* a username is the sequence of the path components it names under user_data/:
\* "ann" is <<"ann">>, "bob/inbox" is <<"bob", "inbox">>, "" is << >>
Usernames == {<<"ann">>, <<"bob">>, <<"bob", "inbox">>, << >>}

Passwords == {"hunter2", "letmein"}

\* the file list of create_user without recurring.csv
NamespaceFilesNoRecurring == {"transactions.csv", "clients.csv"}

\* for file in ["transactions.csv", "clients.csv", "recurring.csv"]
NamespaceFiles == {"transactions.csv", "clients.csv", "recurring.csv"}

\* hashlib.sha256(password.encode()).hexdigest()
hash_password(password) == <<"sha256", password>>

\* SELECT ... WHERE username = ?
UserRows(table, username) == {i \in 1..Len(table) : table[i].username = username}

\* Path("user_data") / username / filename
get_user_data_path(username, filename) == <<username, filename>>

\* the directory that must exist for Path.mkdir() without parents=True
ParentDir(path) == SubSeq(path, 1, Len(path) - 1)

\* user_dir.mkdir(exist_ok=True): the exception it raises, "none" if it returns
MkdirError(path, directories, existing) ==
  IF path \in directories THEN "none"
  ELSE IF Len(path) > 0 /\ <<ParentDir(path), path[Len(path)]>> \in existing THEN "FileExistsError"
  ELSE IF ParentDir(path) \notin directories THEN "FileNotFoundError"
  ELSE "none"

\* if not path.exists(): path.touch(), for every path of paths: a file that is there keeps
\* its content, a file that is not is created with zero bytes
Touch(existing, paths) ==
  [path \in DOMAIN existing \cup paths |->
     IF path \in DOMAIN existing THEN existing[path] ELSE EmptyFile]

\* create_user with INSERT OR REPLACE: the row of a username that has one gets the new hash
create_user_replacing(username, password) ==
  IF UserRows(users, username) # {}
  THEN /\ users' = [i \in 1..Len(users) |->
                      IF users[i].username = username
                      THEN [users[i] EXCEPT !.password_hash = hash_password(password)]
                      ELSE users[i]]
       /\ result' = [NoResult EXCEPT !.op = "create_user", !.status = "False",
                                     !.args = <<username, password>>]
       /\ UNCHANGED <<dirs, nsfiles>>
  ELSE /\ users' = Append(users, [id |-> Len(users) + 1, username |-> username,
                                  password_hash |-> hash_password(password)])
       /\ result' = [NoResult EXCEPT !.op = "create_user", !.status = "raise",
                                     !.args = <<username, password>>]
       /\ UNCHANGED <<dirs, nsfiles>>

create_user(username, password) ==
  IF UserRows(users, username) # {}
  THEN \* sqlite3.IntegrityError: UNIQUE constraint failed
       /\ result' = [NoResult EXCEPT !.op = "create_user", !.status = "False",
                                     !.args = <<username, password>>]
       /\ UNCHANGED <<users, dirs, nsfiles>>
  ELSE /\ users' = Append(users, [id |-> Len(users) + 1, username |-> username,
                                  password_hash |-> hash_password(password)])
       /\ IF MkdirError(username, dirs, DOMAIN nsfiles) # "none"
          THEN /\ result' = [NoResult EXCEPT !.op = "create_user", !.status = "raise",
                                             !.msg = MkdirError(username, dirs, DOMAIN nsfiles),
                                             !.args = <<username, password>>]
               /\ UNCHANGED <<dirs, nsfiles>>
          ELSE /\ dirs' = dirs \cup {username}
               /\ nsfiles' = Touch(nsfiles, {<<username, file>> : file \in NamespaceFiles})
               /\ result' = [NoResult EXCEPT !.op = "create_user", !.status = "True",
                                             !.args = <<username, password>>]

\* verify_user without the WHERE username = ? of its SELECT
verify_user_any_row(table, username, password) ==
  \E i \in 1..Len(table) : table[i].password_hash = hash_password(password)

\* the value verify_user returns
verify_user(table, username, password) ==
  IF UserRows(table, username) = {} THEN FALSE
  ELSE LET stored_hash == table[CHOOSE i \in UserRows(table, username) : TRUE].password_hash
       IN stored_hash = hash_password(password)

CreateUser ==
  \E username \in Usernames, password \in Passwords :
    /\ create_user(username, password)
    /\ UNCHANGED <<files, writes, sessions, uploaded>>

VerifyUser ==
  \E username \in Usernames, password \in Passwords :
    /\ result' = [NoResult EXCEPT !.op = "verify_user",
                    !.status = IF verify_user(users, username, password) THEN "True" ELSE "False",
                    !.args = <<username, password>>]
    /\ UNCHANGED <<files, writes, users, dirs, nsfiles, sessions, uploaded>>

NextCred == CreateUser \/ VerifyUser

\* init_db() creates the table and user_data/ only if they are not there: the machine is
\* new, or user_data/ still holds the directory of an account of an earlier database
LeftoverNamespace ==
  /\ users = << >>
  /\ dirs = {<< >>, <<"ann">>}
  /\ nsfiles = [path \in {<<<<"ann">>, "transactions.csv">>} |-> SampleTransactions]

InitCred ==
  /\ files \in InitialDirectories
  /\ writes = 0
  /\ result = NoResult
  /\ (InitCredentials \/ LeftoverNamespace)
  /\ InitSessions

SpecCred == InitCred /\ [][NextCred]_vars

Next == DataEntry \/ Pages

Spec == Init /\ [][Next]_vars

(* ------------------------ concurrent form handlers --------------------- *)

\* what a submitted form hands to its handler: the outcome of its validation chain and
\* its new_row
FormSubmissions ==
  {[kind |-> "transactions", error |-> TransactionError(f.category, f.description, f.amount),
    new_row |-> NewTransaction(f.date, f.trans_type, f.amount, f.category, f.description)] :
     f \in TransactionForms}
  \cup {[kind |-> "clients",
         error |-> ClientError(f.client, f.project, f.amount, f.invoice_sent, f.due_date),
         new_row |-> NewClient(f.client, f.project, f.amount, f.invoice_sent, f.due_date, f.status)] :
          f \in ClientForms}
  \cup {[kind |-> "recurring", error |-> RecurringError(f.vendor, f.amount),
         new_row |-> NewRecurring(f.vendor, f.frequency, f.amount, f.due_month, f.notes)] :
          f \in RecurringForms}

\* a form handler of session w up to and including "existing_data = load_*(file)"
LoadExisting(w) ==
  \E s \in FormSubmissions :
    LET existing == Load(s.kind, files[s.kind])
        shown == [NoResult EXCEPT !.op = "submit", !.kind = s.kind, !.frame = s.new_row]
    IN /\ sessions[w].pc # "loaded"
       /\ writes < MaxWrites
       /\ IF s.error # "ok"
          THEN /\ result' = [shown EXCEPT !.status = "error", !.msg = s.error]
               /\ UNCHANGED sessions
          ELSE IF existing.status = "raise"
          THEN /\ result' = [shown EXCEPT !.status = "raise", !.io = <<"read">>]
               /\ UNCHANGED sessions
          ELSE /\ sessions' = [sessions EXCEPT ![w] =
                                 [pc |-> "loaded", kind |-> s.kind, existing |-> existing.df,
                                  warned |-> existing.status = "warning", new_row |-> s.new_row]]
               /\ UNCHANGED result
       /\ UNCHANGED <<files, writes, users, dirs, nsfiles, uploaded>>

\* the handler that loads the file again when it writes
WriteUpdatedReloading(w) ==
  LET kind == sessions[w].kind IN
  /\ sessions[w].pc = "loaded"
  /\ writes < MaxWrites
  /\ files' = [files EXCEPT ![kind] =
                 ToCsv(Concat(Load(kind, files[kind]).df, sessions[w].new_row))]
  /\ writes' = writes + 1
  /\ sessions' = [sessions EXCEPT ![w].pc = "written"]
  /\ result' = [NoResult EXCEPT !.op = "submit", !.kind = kind, !.status = "success",
                                !.io = <<"read", "write">>, !.warned = sessions[w].warned,
                                !.frame = sessions[w].new_row]
  /\ UNCHANGED <<users, dirs, nsfiles, uploaded>>

\* the rest of the handler of session w: "updated_data = pd.concat([existing_data,
\* new_row]); updated_data.to_csv(file); st.success(...)"
WriteUpdated(w) ==
  LET kind == sessions[w].kind IN
  /\ sessions[w].pc = "loaded"
  /\ writes < MaxWrites
  /\ files' = [files EXCEPT ![kind] =
                 ToCsv(Concat(sessions[w].existing, sessions[w].new_row))]
  /\ writes' = writes + 1
  /\ sessions' = [sessions EXCEPT ![w].pc = "written"]
  /\ result' = [NoResult EXCEPT !.op = "submit", !.kind = kind, !.status = "success",
                                !.io = <<"read", "write">>, !.warned = sessions[w].warned,
                                !.frame = sessions[w].new_row]
  /\ UNCHANGED <<users, dirs, nsfiles, uploaded>>

\* the sessions' threads run side by side: any session takes the next step of its handler
NextRace == \E w \in Writers : LoadExisting(w) \/ WriteUpdated(w)

SpecRace == Init /\ [][NextRace]_vars

(* ------------------- the uploaders across script runs ------------------ *)

\* the files a user can choose in the uploader of a kind
UploadsOf(kind) ==
  CASE kind = "transactions" ->
         {Upload(TransactionColumns \o <<"Account">>, <<GoodTransaction>>),
          Upload(<<"Date", "Type", "Category", "Amount">>, <<GoodTransaction, ZeroTransaction>>)}
    [] kind = "clients" -> {Upload(ClientColumns, <<GoodClient>>)}
    [] kind = "recurring" -> {Upload(RecurringColumns, <<GoodRecurring>>)}

\* what pd.read_csv(uploaded_...) is given: the file from its start, or nothing more when
\* the buffer was read to its end before
Buffer(widget) == IF widget.pos = "start" THEN widget.file ELSE EmptyFile

\* the import block of one uploader in a run that has come to the state run: if the widget
\* is not None its file is read and, if the columns are there, merged; wrote counts the
\* files written and shown is the last message
ImportBlock(kind, run) ==
  LET i == ImportResult(kind, run.files[kind], Buffer(run.widgets[kind])) IN
  IF ~run.widgets[kind].selected THEN run
  ELSE [files |-> [run.files EXCEPT ![kind] = i.file],
        widgets |-> [run.widgets EXCEPT ![kind].pos = "end"],
        shown |-> i.result,
        wrote |-> run.wrote + (IF i.wrote THEN 1 ELSE 0)]

\* the three import blocks of one run of show_data_entry, in the order of the page
ImportBlocks(fs, widgets, shown) ==
  ImportBlock("recurring",
    ImportBlock("clients",
      ImportBlock("transactions",
        [files |-> fs, widgets |-> widgets, shown |-> shown, wrote |-> 0])))

\* one run of the script on the data entry page after the form handlers: the uploaders
\* return the selected files, which the running Streamlit either hands out as new objects
\* positioned at their start or as the objects of the run before; n files were written
\* by the form handler of this interaction
ScriptRun(fs, widgets, shown, n) ==
  \E rewound \in BOOLEAN :
    \E run \in {ImportBlocks(fs, [k \in Kinds |->
                                    IF rewound /\ widgets[k].selected
                                    THEN [widgets[k] EXCEPT !.pos = "start"]
                                    ELSE widgets[k]], shown)} :
      /\ writes + n + run.wrote <= MaxWrites
      /\ files' = run.files
      /\ uploaded' = run.widgets
      /\ writes' = writes + n + run.wrote
      /\ result' = run.shown
      /\ UNCHANGED <<users, dirs, nsfiles, sessions>>

\* the user chooses a file in an empty uploader: the script runs again
ChooseFile ==
  \E kind \in Kinds : \E upload \in UploadsOf(kind) :
    /\ ~uploaded[kind].selected
    /\ ScriptRun(files, [uploaded EXCEPT ![kind] = [selected |-> TRUE, file |-> upload,
                                                    pos |-> "start"]], NoResult, 0)

\* the user removes the file of an uploader: the script runs again
ClearFile ==
  \E kind \in Kinds :
    /\ uploaded[kind].selected
    /\ ScriptRun(files, [uploaded EXCEPT ![kind] = NoUpload], NoResult, 0)

\* the user submits a form: a rejected form shows its error and the run goes on to the
\* uploaders; an accepted one appends its row and st.rerun() starts the next run
SubmitForm ==
  \E s \in FormSubmissions :
    LET a == AppendFrame(s.kind, files[s.kind], s.new_row)
        shown == [NoResult EXCEPT !.op = "submit", !.kind = s.kind, !.frame = s.new_row]
    IN IF s.error # "ok"
       THEN ScriptRun(files, uploaded, [shown EXCEPT !.status = "error", !.msg = s.error], 0)
       ELSE IF a.raised
       THEN /\ result' = [shown EXCEPT !.status = "raise", !.io = a.io]
            /\ UNCHANGED <<files, writes, users, dirs, nsfiles, sessions, uploaded>>
       ELSE ScriptRun([files EXCEPT ![s.kind] = a.file], uploaded,
                      [shown EXCEPT !.status = "success", !.io = a.io, !.warned = a.warned], 1)

NextUpload == ChooseFile \/ ClearFile \/ SubmitForm

SpecUpload == Init /\ [][NextUpload]_vars

(* ------------------------------ properties ----------------------------- *)

PageNames ==
  {"overview", "income_expenses", "expense_categories", "income_allocations",
   "client_tracking", "recurring_expenses"}

\* the required columns of a kind that a header does not have
MissingCols(kind, columns) == {c \in Range(RequiredCols(kind)) : c \notin Range(columns)}

\* every cell of row is found unchanged in other
SameCells(row, other) == \A c \in DOMAIN row : c \in DOMAIN other /\ other[c] = row[c]

\* C1: a form row that passes validation is appended: the table loaded afterwards has one
\* row more than the table loaded before, its last row is the submitted row and its earlier
\* rows are the rows loaded before, in order.
AppendThenReload ==
  [][(result'.op = "submit" /\ result'.status # "error") =>
       LET kind == result'.kind
           before == Load(kind, files[kind]).df.rows
           after == Load(kind, files'[kind]).df.rows
       IN /\ Len(after) = Len(before) + 1
          /\ SameCells(result'.frame.rows[1], after[Len(after)])
          /\ \A i \in 1..Len(before) : SameCells(before[i], after[i])]_vars

ErrorNamesMissingCols ==
  (result.op = "import" /\ result.msg = "CSV must contain columns") =>
    Range(result.named) = MissingCols(result.kind, result.frame.columns)

\* C4: create_user for a username without a row returns success and adds exactly its row;
\* for a username that has a row it returns False and adds none; no username has two rows.
CreateUserOncePerName ==
  [][(result'.op = "create_user") =>
       LET username == result'.args[1] IN
       /\ \A i, j \in 1..Len(users') : users'[i].username = users'[j].username => i = j
       /\ IF \E i \in 1..Len(users) : users[i].username = username
          THEN result'.status = "False" /\ users' = users
          ELSE /\ result'.status = "True"
               /\ Len(users') = Len(users) + 1
               /\ SubSeq(users', 1, Len(users)) = users
               /\ users'[Len(users')].username = username]_vars

\* C5: verify_user returns True exactly when the username has a row whose stored hash is
\* the hash of the password, that hash being the one create_user stored; it returns False
\* for a username without a row and never changes the users table.
VerifyMatchesStoredHash ==
  [][/\ (result'.op = "verify_user") =>
          /\ users' = users
          /\ result'.status \in {"True", "False"}
          /\ result'.status = "True" <=>
               \E i \in 1..Len(users) :
                 /\ users[i].username = result'.args[1]
                 /\ users[i].password_hash = hash_password(result'.args[2])
     /\ (result'.op = "create_user" /\ Len(users') > Len(users)) =>
          users'[Len(users')].password_hash = hash_password(result'.args[2])]_vars

\* C5 witness: verify_user accepted the password of an account, with another account present
VerifyAccepted ==
  /\ result.op = "verify_user"
  /\ result.status = "True"
  /\ Len(users) > 1

\* C6: a page whose table cannot be loaded (its file is missing, empty or malformed) does
\* not raise: it shows its "no data" state, after the loader's warning.
UnloadablePagesShowNoData ==
  (result.op \in PageNames /\ Load(result.kind, files[result.kind]).status # "ok") =>
    result.status = "nodata" /\ result.warned

\* C7: a ratio whose denominator is zero is 0.
ZeroDenominatorYieldsZero ==
  \A r \in result.ratios : r.den = 0 => r.value = Number(0)

\* C8: every stored amount is non-negative and every stored invoice is due strictly after
\* it was sent.
StoredRowsValid ==
  /\ \A k \in Kinds : \A i \in 1..Len(files[k].rows) :
       "Amount" \in DOMAIN files[k].rows[i] => files[k].rows[i]["Amount"].n >= 0
  /\ \A i \in 1..Len(files["clients"].rows) :
       LET row == files["clients"].rows[i] IN
       {"Invoice_Sent", "Due_Date"} \subseteq DOMAIN row =>
         row["Due_Date"].n > row["Invoice_Sent"].n

\* the submitted row has an empty required text, an amount that is not positive, or (an
\* invoice) a due date that is not after the date it was sent
InvalidRow(kind, row) ==
  \/ row["Amount"].n <= 0
  \/ kind = "transactions" /\ Str("") \in {row["Category"], row["Description"]}
  \/ kind = "clients" /\ Str("") \in {row["Client"], row["Project"]}
  \/ kind = "clients" /\ row["Due_Date"].n <= row["Invoice_Sent"].n
  \/ kind = "recurring" /\ row["Vendor"] = Str("")

TransactionsNeverLost ==
  [][\A i \in 1..Len(files["transactions"].rows) :
       \E j \in 1..Len(files'["transactions"].rows) :
         SameCells(files["transactions"].rows[i], files'["transactions"].rows[j])]_vars

\* the fixed column set of a kind
FixedColumns(kind) ==
  CASE kind = "transactions" -> Range(TransactionColumns)
    [] kind = "clients" -> Range(ClientColumns)
    [] kind = "recurring" -> Range(RecurringColumns)

\* C11: a form append or a CSV import on a file that has exactly the fixed columns of its
\* kind leaves it with exactly those columns, and an upload lacking one of them (Notes
\* included) is not merged.
StoredColumnsFixed ==
  [][(result'.op \in {"submit", "import"}
        /\ Range(files[result'.kind].header) = FixedColumns(result'.kind)) =>
       /\ Range(files'[result'.kind].header) = FixedColumns(result'.kind)
       /\ (result'.op = "import"
             /\ ~(FixedColumns(result'.kind) \subseteq Range(result'.frame.columns))) =>
            files' = files]_vars

\* C12: a create_user that returns True for a username whose directory was not there
\* leaves that directory holding exactly transactions.csv, clients.csv and recurring.csv,
\* each of zero bytes, at the paths get_user_data_path gives; a create_user that returns
\* False leaves directories and files as they were.
CreateUserProvisionsNamespace ==
  [][(result'.op = "create_user") =>
       LET username == result'.args[1]
           tables == {"transactions.csv", "clients.csv", "recurring.csv"}
       IN /\ (result'.status = "True" /\ username \notin dirs) =>
               /\ username \in dirs'
               /\ {path \in DOMAIN nsfiles' : path[1] = username}
                    = {get_user_data_path(username, file) : file \in tables}
               /\ \A file \in tables :
                    nsfiles'[get_user_data_path(username, file)] = EmptyFile
          /\ (result'.status = "False") => (dirs' = dirs /\ nsfiles' = nsfiles)]_vars

\* C12 witness: create_user returned True for bob/inbox, whose three files are there
CreateUserProvisioned ==
  /\ result.op = "create_user"
  /\ result.status = "True"
  /\ result.args[1] = <<"bob", "inbox">>
  /\ \A file \in NamespaceFiles : get_user_data_path(<<"bob", "inbox">>, file) \in DOMAIN nsfiles

\* C13: on the allocation page taxes are 0.40 of the year-to-date income, reinvestment is
\* 0.20 of it, owner pay is 78000 dollars whatever the income, and the net cushion is the
\* income less the three; an income of 6200 dollars gives 2480, 1240, 78000 and -75520.
\* A metric <<name, n, d>> is n / d cents.
AllocationSplit ==
  (result.op = "income_allocations" /\ result.status = "rendered") =>
    LET Metric(name) == CHOOSE m \in result.metrics : m[1] = name
        income == Metric("ytd_income")[2]
        taxes == Metric("taxes_set_aside")
        reinvestment == Metric("reinvestment")
        owner_pay == Metric("owner_pay_total")
        net_cushion == Metric("net_cushion")
    IN /\ taxes[2] * 5 = income * 2 * taxes[3]
       /\ reinvestment[2] * 5 = income * reinvestment[3]
       /\ owner_pay[2] = 7800000 * owner_pay[3]
       /\ net_cushion[3] % 5 = 0
       /\ net_cushion[2] = (income * 2 - 7800000 * 5) * (net_cushion[3] \div 5)
       /\ income = 620000 =>
            /\ taxes[2] = 248000 * taxes[3]
            /\ reinvestment[2] = 124000 * reinvestment[3]
            /\ net_cushion[2] = (0 - 7552000) * net_cushion[3]

\* the stored invoices with one of the statuses, by position in the file
InvoicesWith(statuses) ==
  {i \in 1..Len(files["clients"].rows) :
     files["clients"].rows[i]["Status"] \in {Str(status) : status \in statuses}}

RECURSIVE AmountOf(_)
\* the sum of the amounts of the stored invoices at the positions
AmountOf(positions) ==
  IF positions = {} THEN 0
  ELSE LET i == CHOOSE j \in positions : TRUE
       IN files["clients"].rows[i]["Amount"].n + AmountOf(positions \ {i})

\* C14: the client tracking page shows, as outstanding, the number and the summed amount of
\* exactly the invoices with status Sent or Due, as paid and as overdue the number and sum
\* of the invoices with that status; the overview page's outstanding total is the
\* outstanding amount the client tracking page shows for the same file.
InvoiceRollups ==
  /\ (result.op = "client_tracking" /\ result.status = "rendered") =>
       {<<"outstanding_count", Cardinality(InvoicesWith({"Sent", "Due"}))>>,
        <<"outstanding_amount", AmountOf(InvoicesWith({"Sent", "Due"}))>>,
        <<"paid_count", Cardinality(InvoicesWith({"Paid"}))>>,
        <<"paid_amount", AmountOf(InvoicesWith({"Paid"}))>>,
        <<"overdue_count", Cardinality(InvoicesWith({"Overdue"}))>>,
        <<"overdue_amount", AmountOf(InvoicesWith({"Overdue"}))>>} \subseteq result.metrics
  /\ (result.op = "overview" /\ result.status = "rendered") =>
       /\ <<"total_outstanding", AmountOf(InvoicesWith({"Sent", "Due"}))>> \in result.metrics
       /\ show_client_tracking(files).status = "rendered" =>
            \E m \in show_client_tracking(files).metrics :
              /\ m[1] = "outstanding_amount"
              /\ <<"total_outstanding", m[2]>> \in result.metrics

\* C14 witness: the client tracking page was rendered over paid, overdue, sent and due
\* invoices
InvoiceRollupsShown ==
  /\ result.op = "client_tracking"
  /\ result.status = "rendered"
  /\ \A status \in {"Paid", "Overdue", "Sent", "Due"} : InvoicesWith({status}) # {}

\* the stored expense rows of a category, by position in the file
ExpensesOf(cat) ==
  {i \in 1..Len(files["transactions"].rows) :
     /\ files["transactions"].rows[i]["Type"] = Str("Expense")
     /\ files["transactions"].rows[i]["Category"] = Str(cat)}

RECURSIVE ExpenseAmount(_)
\* the sum of the amounts of the stored transactions at the positions
ExpenseAmount(positions) ==
  IF positions = {} THEN 0
  ELSE LET i == CHOOSE j \in positions : TRUE
       IN files["transactions"].rows[i]["Amount"].n + ExpenseAmount(positions \ {i})

RECURSIVE PercentageSum(_)
\* the sum of the Percentage column, in hundredths of a percent
PercentageSum(rows) ==
  IF Len(rows) = 0 THEN 0 ELSE Head(rows).Percentage.val + PercentageSum(Tail(rows))

\* C15: when the expenses total more than 0, the category breakdown has one row per
\* category of the stored expense rows, with the sum of that category's amounts, the rows
\* are in descending order of that sum, and the percentages, each rounded to 2 decimals,
\* add up to 100 within half a hundredth per row.
CategoryBreakdown ==
  (result.op = "expense_categories" /\ result.status = "rendered") =>
    LET rows == result.frame.rows
        stored == files["transactions"].rows
        cats == {stored[i]["Category"].s : i \in {j \in 1..Len(stored) : stored[j]["Type"] = Str("Expense")}}
        total == ExpenseAmount(UNION {ExpensesOf(cat) : cat \in cats})
        off == PercentageSum(rows) - 10000
    IN total > 0 =>
         /\ {rows[i].Category : i \in 1..Len(rows)} = cats
         /\ \A i, j \in 1..Len(rows) : rows[i].Category = rows[j].Category => i = j
         /\ \A i \in 1..Len(rows) : rows[i].Amount = ExpenseAmount(ExpensesOf(rows[i].Category))
         /\ \A i \in 1..Len(rows) : i < Len(rows) => rows[i].Amount >= rows[i + 1].Amount
         /\ \A i \in 1..Len(rows) : rows[i].Percentage.tag = "num"
         /\ 2 * off <= Len(rows) /\ 2 * off >= 0 - Len(rows)

\* C15 witness: the breakdown was shown for four categories of which two have equal sums
CategoryBreakdownShown ==
  /\ result.op = "expense_categories"
  /\ result.status = "rendered"
  /\ Len(result.frame.rows) >= 3
  /\ \E i \in 1..Len(result.frame.rows) - 1 :
       result.frame.rows[i].Amount = result.frame.rows[i + 1].Amount

\* C16: an append is a read of the whole file followed, in a later step, by a write of the
\* whole file.  When the other session has read the same file and written its row since
\* this session read, the write replaces that row by this session's row: the file holds
\* the rows both read and the last writer's row only.  When the file is as this session
\* read it, the write keeps every row and adds this session's row.
RacingAppends ==
  [][\A w \in Writers : (sessions[w].pc = "loaded" /\ sessions'[w].pc = "written") =>
       LET o == CHOOSE x \in Writers : x # w
           kind == sessions[w].kind
           mine == sessions[w].new_row.rows[1]
           before == files[kind].rows
           after == files'[kind].rows
           raced == /\ sessions[o].pc = "written"
                    /\ sessions[o].kind = kind
                    /\ sessions[o].existing = sessions[w].existing
                    /\ files[kind] = ToCsv(Concat(sessions[o].existing, sessions[o].new_row))
       IN /\ raced =>
               /\ Len(after) = Len(before)
               /\ SubSeq(after, 1, Len(after) - 1) = SubSeq(before, 1, Len(before) - 1)
               /\ SameCells(mine, after[Len(after)])
          /\ (Load(kind, files[kind]).df = sessions[w].existing) =>
               /\ Len(after) = Len(before) + 1
               /\ SubSeq(after, 1, Len(before)) = before
               /\ SameCells(mine, after[Len(after)])]_vars

\* C16 witness: both sessions read the same recurring file, both wrote, their rows differ
\* and the file holds what one of them wrote
RaceLostAppend ==
  /\ sessions[1].pc = "written" /\ sessions[2].pc = "written"
  /\ sessions[1].kind = sessions[2].kind
  /\ sessions[1].existing = sessions[2].existing
  /\ sessions[1].new_row # sessions[2].new_row
  /\ \E w \in Writers :
       files[sessions[w].kind] = ToCsv(Concat(sessions[w].existing, sessions[w].new_row))

\* C17: every username of the users table has its directory with the three table files,
\* and a create_user that did not return True for want of the directory or of a file left
\* no row for its username.
AccountHasNamespace ==
  /\ \A i \in 1..Len(users) :
       /\ users[i].username \in dirs
       /\ \A file \in NamespaceFiles :
            get_user_data_path(users[i].username, file) \in DOMAIN nsfiles
  /\ (result.op = "create_user" /\ result.status = "raise") =>
       \A i \in 1..Len(users) : users[i].username # result.args[1]

\* C18: a create_user that returns False because the username has a row leaves the users
\* table, the directories and the files with their contents as they were; verify_user of
\* that username still returns what it returned for every password: True for the password
\* of the account, False for the password of the rejected call when it is another one.
RejectedCreateUserChangesNothing ==
  [][(result'.op = "create_user" /\ result'.status = "False") =>
       LET username == result'.args[1]
           rejected == result'.args[2]
           stored == users[CHOOSE i \in 1..Len(users) : users[i].username = username]
       IN /\ users' = users /\ dirs' = dirs /\ nsfiles' = nsfiles
          /\ \A password \in Passwords :
               verify_user(users', username, password) = verify_user(users, username, password)
          /\ \A password \in Passwords :
               stored.password_hash = hash_password(password) =>
                 /\ verify_user(users', username, password)
                 /\ rejected # password => ~verify_user(users', username, rejected)]_vars

\* C18 witness: create_user was rejected for an account made with the other password and
\* whose directory holds a table with rows
CreateUserRejected ==
  /\ result.op = "create_user"
  /\ result.status = "False"
  /\ \E i \in 1..Len(users) :
       /\ users[i].username = result.args[1]
       /\ users[i].password_hash # hash_password(result.args[2])
       /\ get_user_data_path(users[i].username, "transactions.csv") \in DOMAIN nsfiles
       /\ Len(nsfiles[get_user_data_path(users[i].username, "transactions.csv")].rows) > 0

\* the number of rows of a file that hold every cell of an uploaded row
Occurrences(row, f) == Cardinality({i \in 1..Len(f.rows) : SameCells(row, f.rows[i])})

\* C19: while a file stays selected in an uploader after the run that read it, no later
\* run of the data entry page appends its rows again: no row of the upload occurs more
\* often in the destination file than before the run.
UploadMergedOnce ==
  [][\A k \in Kinds :
       (uploaded[k].selected /\ uploaded[k].pos = "end" /\ uploaded'[k].selected) =>
         \A i \in 1..Len(uploaded[k].file.rows) :
           Occurrences(uploaded[k].file.rows[i], files'[k])
             <= Occurrences(uploaded[k].file.rows[i], files[k])]_vars

====
